---- MODULE Spec2Model ----
(***************************************************************************)
(* A model of pyedflib's EdfWriter (src/pyedflib/edfwriter.py): the        *)
(* session's header state, its push to the codec (update_header), the      *)
(* per-channel setters, the sample writers, writeAnnotation and close.     *)
(*                                                                         *)
(* The codec (_pyedflib) is the external collaborator: it is modelled by   *)
(* the header values it was last handed, the write_physical_samples and    *)
(* write_annotation calls it received and the number of close_file calls   *)
(* on the handle.                                                          *)
(***************************************************************************)
EXTENDS Integers, Sequences, FiniteSets, TLC

\* ------------------------------------------------------------------ bounds

\* Largest channel count a session is constructed with.
MaxChannels == 2
\* Longest sample sequence handed to a write.
MaxLen == 2
\* Largest sample rate a setter is called with (0 is included: no setter
\* validates its value).
MaxRate == 2
\* Cap on write_physical_samples calls of one session.
MaxWrites == 5
\* Cap on close_file calls of one session.
MaxCloses == 3

\* --------------------------------------------------- program constants

\* EdfWriter.__init__: the placeholder descriptor of every channel.
DefaultSampleRate == 100
DefaultPhysicalMax == 1
DefaultPhysicalMin == -1
DigitalMax24 == 8388607
DigitalMin24 == -8388608
DigitalMax16 == 32767
DigitalMin16 == -32768
DefaultDuration == 1

FILETYPE_EDF == "EDF"
FILETYPE_EDFPLUS == "EDF+"
FILETYPE_BDF == "BDF"
FILETYPE_BDFPLUS == "BDF+"
FileTypes == {FILETYPE_EDF, FILETYPE_EDFPLUS, FILETYPE_BDF, FILETYPE_BDFPLUS}

\* ------------------------------------------------------- Python values

Min(a, b) == IF a < b THEN a ELSE b

\* A Python value that is an int or a str (the gender field).
PyInt(n) == [kind |-> "int", int |-> n, str |-> ""]
PyStr(s) == [kind |-> "str", int |-> 0, str |-> s]

\* datetime.date(y, m, d), and a str standing where a date is expected.
PyDate(y, m, d) == [kind |-> "date", ymd |-> <<y, m, d>>, str |-> ""]
PyDateStr(s) == [kind |-> "str", ymd |-> <<0, 0, 0>>, str |-> s]

\* u(x).encode('UTF-8'): the bytes handed to the codec, tagged with their
\* encoding.
EncodeUTF8(s) == <<"utf-8", s>>

\* datetime.strptime(s, '%d %b %Y'): the strings of the model that match the
\* format, with the date each denotes; any other string raises ValueError.
StrptimeTable == ("12 Mar 1975" :> <<1975, 3, 12>>) @@ ("01 Jan 2000" :> <<2000, 1, 1>>)
StrptimeOk(s) == s \in DOMAIN StrptimeTable
Strptime(s) == StrptimeTable[s]

\* u(x).encode('latin1'): the strings of the model inside the Latin-1
\* repertoire; any other string raises UnicodeEncodeError. "U+20AC" stands
\* for the one-character string of that code point.
Latin1Strings == {"", "a"}
Latin1Ok(s) == s \in Latin1Strings
EncodeLatin1(s) == <<"latin1", s>>

\* A time in seconds is an integer count of hundred-thousandths of a second
\* (123456 is 1.23456 s), so seconds * 10000 is that count of tenths of a tick.
\* np.round(seconds * 10000).astype(int): the integer nearest to the product.
\* A product half-way between two integers is a double on the tie or next to
\* it on either side (0.00015 * 10000 is 1.4999999999999998, 1.00005 * 10000
\* is 10000.500000000002), so either neighbour can be the result.
NpRound(seconds) ==
    LET q == seconds \div 10
        r == seconds % 10
    IN  IF r < 5 THEN {q} ELSE IF r > 5 THEN {q + 1} ELSE {q, q + 1}

\* s[a:b] of a Python sequence, 0 <= a, 0 <= b (the slice is clipped).
PySlice(s, a, b) ==
    LET hi == Min(b, Len(s))
    IN  IF hi <= a THEN <<>> ELSE [k \in 1..(hi - a) |-> s[a + k]]

\* np.zeros(n)
Zeros(n) == [k \in 1..n |-> 0]

\* dst[:k] = src in numpy: the target is dst's first min(k, len(dst)) items;
\* src must have that length or length 1 (broadcast), else ValueError.
AssignOk(dst, k, src) == Len(src) = Min(k, Len(dst)) \/ Len(src) = 1
AssignPrefix(dst, k, src) ==
    [j \in 1..Len(dst) |->
        IF j <= Min(k, Len(dst))
        THEN (IF Len(src) = 1 THEN src[1] ELSE src[j])
        ELSE dst[j]]

\* ------------------------------------------------------------------ state

VARIABLES
    file_type,      \* self.file_type
    n_channels,     \* self.n_channels
    meta,           \* the session's metadata fields (self.technician, ...)
    channels,       \* self.channels: one descriptor per channel
    codec_hdr,      \* codec: the metadata values it was last handed
    codec_chan,     \* codec: the channel descriptors it was last handed
    codec_writes,   \* codec: the write_physical_samples calls the latest operation made
    codec_count,    \* codec: number of write_physical_samples calls of the session
    codec_annot,    \* codec: the write_annotation calls the latest operation made
    close_calls,    \* codec: number of close_file calls on self.handle
    ws,             \* the frame of the running writeSamples call (idle: none runs)
    last            \* the latest operation: its name, argument, outcome, codec calls

vars == <<file_type, n_channels, meta, channels, codec_hdr, codec_chan,
          codec_writes, codec_count, codec_annot, close_calls, ws, last>>

\* ----------------------------------------------------------- input domains

Texts == {"", "a"}
Genders == {PyInt(0), PyInt(1), PyStr("Male"), PyStr("Female"), PyStr("X")}
Date1900 == PyDate(1900, 1, 1)
Birthdates == {Date1900, PyDate(1975, 3, 12), PyDateStr(""),
               PyDateStr("12 Mar 1975"), PyDateStr("12/03/1975")}
StartTime0 == <<2020, 1, 1, 0, 0, 0>>
StartTime1 == <<2021, 6, 15, 12, 30, 45>>
StartTimes == {StartTime0, StartTime1}
Durations == {DefaultDuration, 2}
Rates == 0..MaxRate
SampleLens == 0..MaxLen

\* The samples of channel i (1-based) in a bulk write: nonzero and distinct
\* across channels and positions, so a record shows where it came from.
Samples(i, len) == [j \in 1..len |-> 10 * i + j]
\* The data lists of k sequences.
DataListsOf(k) == { [i \in 1..k |-> Samples(i, lens[i])] : lens \in [1..k -> SampleLens] }
\* The data lists handed to writeSamples: of every count up to MaxChannels,
\* and one with a sequence too many.
DataLists ==
    UNION { DataListsOf(k) : k \in 0..MaxChannels }
        \cup { [i \in 1..(MaxChannels + 1) |-> Samples(i, 1)] }

\* The annotations handed to writeAnnotation: onsets and durations in
\* hundred-thousandths of a second, descriptions, text modes.
Onsets == {0, 5, 123456}
AnnotDurations == {-100000, -1, 0, 15, 50000}
Descriptions == {"a", "U+20AC"}
StrFormats == {"utf-8", "latin1"}

\* --------------------------------------------------------- construction

\* EdfWriter.__init__: the placeholder descriptor appended for each channel.
DefaultChannel(ft) ==
    IF ft = FILETYPE_EDFPLUS \/ ft = FILETYPE_BDFPLUS
    THEN [label |-> "test_label", dimension |-> "mV", sample_rate |-> DefaultSampleRate,
          physical_max |-> DefaultPhysicalMax, physical_min |-> DefaultPhysicalMin,
          digital_max |-> DigitalMax24, digital_min |-> DigitalMin24,
          prefilter |-> "pre1", transducer |-> "trans1"]
    ELSE [label |-> "test_label", dimension |-> "mV", sample_rate |-> DefaultSampleRate,
          physical_max |-> DefaultPhysicalMax, physical_min |-> DefaultPhysicalMin,
          digital_max |-> DigitalMax16, digital_min |-> DigitalMin16,
          prefilter |-> "pre1", transducer |-> "trans1"]

\* EdfWriter.__init__: the metadata fields; now is datetime.now().
DefaultMeta(now) ==
    [patient_name |-> "", patient_code |-> "", technician |-> "", equipment |-> "",
     recording_additional |-> "", patient_additional |-> "", admincode |-> "",
     gender |-> PyInt(0), recording_start_time |-> now, birthdate |-> Date1900,
     duration |-> DefaultDuration]

\* The codec's header of a freshly opened file: nothing was handed to it yet.
CodecUnsetText == <<"unset", "">>
CodecFreshHdr ==
    [technician |-> CodecUnsetText, recording_additional |-> CodecUnsetText,
     patient_name |-> CodecUnsetText, patient_code |-> CodecUnsetText,
     patient_additional |-> CodecUnsetText, equipment |-> CodecUnsetText,
     admincode |-> CodecUnsetText, gender |-> -1, duration |-> 0,
     startdatetime |-> <<0, 0, 0, 0, 0, 0>>, birthdate |-> <<0, 0, 0>>]
CodecFreshChan ==
    [label |-> CodecUnsetText, dimension |-> CodecUnsetText, sample_rate |-> -1,
     physical_max |-> 0, physical_min |-> 0, digital_max |-> 0, digital_min |-> 0,
     prefilter |-> CodecUnsetText, transducer |-> CodecUnsetText]

IdleFrame == [pc |-> "idle", data_list |-> <<>>, ind |-> <<>>, i |-> 0]
Outcome(op, arg, result, value, ncalls) ==
    [op |-> op, arg |-> arg, result |-> result, value |-> value, ncalls |-> ncalls]

Init ==
    /\ file_type \in FileTypes
    /\ n_channels \in 1..MaxChannels
    /\ \E now \in StartTimes : meta = DefaultMeta(now)
    /\ channels = [i \in 1..n_channels |-> DefaultChannel(file_type)]
    /\ codec_hdr = CodecFreshHdr
    /\ codec_chan = [i \in 1..n_channels |-> CodecFreshChan]
    /\ codec_writes = <<>>
    /\ codec_count = 0
    /\ codec_annot = <<>>
    /\ close_calls = 0
    /\ ws = IdleFrame
    /\ last = Outcome("__init__", n_channels, "ok", 0, 1)

\* ------------------------------------------------------------ the codec

\* A codec setter on the handle: the codec keeps the value it is handed; a
\* handle that was closed is invalid and the call changes nothing.
CodecSet(old, new) == IF close_calls > 0 THEN old ELSE new

\* write_physical_samples(handle, buffer): the status the codec returns; a
\* closed handle is an invalid handle.
CodecWriteStatus == IF close_calls > 0 THEN -1 ELSE 0

\* One write_physical_samples call as the codec saw it; ch is the channel
\* (0-based) whose samples the caller put in the buffer, -1 when the caller
\* did not say.
WriteCall(ch, buf) == [ch |-> ch, buf |-> buf, status |-> CodecWriteStatus]

\* write_annotation_utf8 / write_annotation_latin1 (handle, onset, duration,
\* text): the status the codec returns; annotations exist only in the plus
\* format kinds, and a closed handle is an invalid handle.
CodecAnnotStatus ==
    IF close_calls > 0 \/ file_type \notin {FILETYPE_EDFPLUS, FILETYPE_BDFPLUS}
    THEN -1 ELSE 0

\* One write_annotation call as the codec saw it; args are the onset, the
\* duration and the text mode of the writeAnnotation call that made it.
AnnotCall(fn, onset, duration, text, args) ==
    [fn |-> fn, onset |-> onset, duration |-> duration, text |-> text,
     status |-> CodecAnnotStatus, args |-> args]

\* ------------------------------------------------------- update_header

\* update_header, the gender branch: does the session's gender lead to a
\* set_gender call, and with which code.
GenderPushed(g) == g.kind = "int" \/ g.str = "Male" \/ g.str = "Female"
GenderCode(g) == IF g.kind = "int" THEN g.int ELSE IF g.str = "Male" THEN 0 ELSE 1

\* update_header, the birthdate branch: does it raise (strptime's ValueError),
\* and the (year, month, day) handed to set_birthdate otherwise.
BirthdateRaises(b) == b.kind = "str" /\ b.str # "" /\ ~StrptimeOk(b.str)
BirthdateYMD(b) ==
    IF b.kind = "str"
    THEN (IF b.str = "" THEN <<1900, 1, 1>> ELSE Strptime(b.str))
    ELSE b.ymd

\* update_header, the per-channel loop: the descriptor as handed to the codec.
EncodeChannel(c) ==
    [label |-> EncodeUTF8(c.label), dimension |-> EncodeUTF8(c.dimension),
     sample_rate |-> c.sample_rate,
     physical_max |-> c.physical_max, physical_min |-> c.physical_min,
     digital_max |-> c.digital_max, digital_min |-> c.digital_min,
     prefilter |-> EncodeUTF8(c.prefilter), transducer |-> EncodeUTF8(c.transducer)]

\* update_header, the metadata the codec holds after the call: every field up
\* to the start time is pushed, the gender only in its three branches, the
\* birthdate only when it does not raise.
PushedHdr(m, old) ==
    [technician |-> CodecSet(old.technician, EncodeUTF8(m.technician)),
     recording_additional |-> CodecSet(old.recording_additional, EncodeUTF8(m.recording_additional)),
     patient_name |-> CodecSet(old.patient_name, EncodeUTF8(m.patient_name)),
     patient_code |-> CodecSet(old.patient_code, EncodeUTF8(m.patient_code)),
     patient_additional |-> CodecSet(old.patient_additional, EncodeUTF8(m.patient_additional)),
     equipment |-> CodecSet(old.equipment, EncodeUTF8(m.equipment)),
     admincode |-> CodecSet(old.admincode, EncodeUTF8(m.admincode)),
     gender |-> IF GenderPushed(m.gender)
                THEN CodecSet(old.gender, GenderCode(m.gender)) ELSE old.gender,
     duration |-> CodecSet(old.duration, m.duration),
     startdatetime |-> CodecSet(old.startdatetime, m.recording_start_time),
     birthdate |-> IF BirthdateRaises(m.birthdate)
                   THEN old.birthdate ELSE CodecSet(old.birthdate, BirthdateYMD(m.birthdate))]

\* update_header, the descriptors the codec holds after the call: the loop
\* over the channels is reached only when the birthdate did not raise.
PushedChan(m, chs, old) ==
    IF BirthdateRaises(m.birthdate)
    THEN old
    ELSE [i \in 1..n_channels |-> CodecSet(old[i], EncodeChannel(chs[i]))]

\* update_header: the number of codec calls it makes.
PushCalls(m) ==
    7 + (IF GenderPushed(m.gender) THEN 1 ELSE 0) + 2
      + (IF BirthdateRaises(m.birthdate) THEN 0 ELSE 1 + 9 * n_channels)

\* update_header's outcome.
PushResult(m) == IF BirthdateRaises(m.birthdate) THEN "ValueError" ELSE "ok"

\* A setter's tail: the session fields are assigned (m, chs), then
\* update_header pushes all of them to the codec.
update_header(op, arg, m, chs) ==
    /\ meta' = m
    /\ channels' = chs
    /\ codec_hdr' = PushedHdr(m, codec_hdr)
    /\ codec_chan' = PushedChan(m, chs, codec_chan)
    /\ codec_writes' = <<>>
    /\ codec_annot' = <<>>
    /\ last' = Outcome(op, arg, PushResult(m), 0, PushCalls(m))
    /\ UNCHANGED <<file_type, n_channels, codec_count, close_calls, ws>>

\* An operation that raises before it touched anything.
Raise(op, arg, exc, value) ==
    /\ codec_writes' = <<>>
    /\ codec_annot' = <<>>
    /\ last' = Outcome(op, arg, exc, value, 0)
    /\ UNCHANGED <<file_type, n_channels, meta, channels, codec_hdr, codec_chan,
                   codec_count, close_calls, ws>>

\* ------------------------------------------------------ metadata setters

setHeader(fileHeader) ==
    /\ ws.pc = "idle"
    /\ update_header("setHeader", 0,
          [meta EXCEPT !.technician = fileHeader.technician,
                       !.recording_additional = fileHeader.recording_additional,
                       !.patient_name = fileHeader.patientname,
                       !.patient_additional = fileHeader.patient_additional,
                       !.patient_code = fileHeader.patientcode,
                       !.equipment = fileHeader.equipment,
                       !.admincode = fileHeader.admincode,
                       !.gender = fileHeader.gender,
                       !.recording_start_time = fileHeader.startdate,
                       !.birthdate = fileHeader.birthdate],
          channels)

setTechnician(technician) ==
    /\ ws.pc = "idle"
    /\ update_header("setTechnician", technician, [meta EXCEPT !.technician = technician], channels)

setRecordingAdditional(recording_additional) ==
    /\ ws.pc = "idle"
    /\ update_header("setRecordingAdditional", recording_additional,
          [meta EXCEPT !.recording_additional = recording_additional], channels)

setPatientName(patient_name) ==
    /\ ws.pc = "idle"
    /\ update_header("setPatientName", patient_name, [meta EXCEPT !.patient_name = patient_name], channels)

setPatientCode(patient_code) ==
    /\ ws.pc = "idle"
    /\ update_header("setPatientCode", patient_code, [meta EXCEPT !.patient_code = patient_code], channels)

\* The source assigns self.technician here.
setPatientAdditional(patient_additional) ==
    /\ ws.pc = "idle"
    /\ update_header("setPatientAdditional", patient_additional,
          [meta EXCEPT !.technician = patient_additional], channels)

setEquipment(equipment) ==
    /\ ws.pc = "idle"
    /\ update_header("setEquipment", equipment, [meta EXCEPT !.equipment = equipment], channels)

setAdmincode(admincode) ==
    /\ ws.pc = "idle"
    /\ update_header("setAdmincode", admincode, [meta EXCEPT !.admincode = admincode], channels)

setGender(gender) ==
    /\ ws.pc = "idle"
    /\ update_header("setGender", gender, [meta EXCEPT !.gender = gender], channels)

setDatarecordDuration(duration) ==
    /\ ws.pc = "idle"
    /\ update_header("setDatarecordDuration", duration, [meta EXCEPT !.duration = duration], channels)

setStartdatetime(recording_start_time) ==
    /\ ws.pc = "idle"
    /\ update_header("setStartdatetime", recording_start_time,
          [meta EXCEPT !.recording_start_time = recording_start_time], channels)

setBirthdate(birthdate) ==
    /\ ws.pc = "idle"
    /\ update_header("setBirthdate", birthdate, [meta EXCEPT !.birthdate = birthdate], channels)

\* --------------------------------------------------- per-channel setters

\* The setters' range check: "edfsignal < 0 or edfsignal > self.n_channels".
ChannelCheckFails(edfsignal) == edfsignal < 0 \/ edfsignal > n_channels

\* self.channels[e] on a Python list of length len: the index is valid from
\* -len to len - 1 (IndexError otherwise); PyIndex is its 1-based position.
PyIndexOk(e, len) == -len <= e /\ e < len
PyIndex(e, len) == IF e < 0 THEN len + e + 1 ELSE e + 1

\* The descriptors handed to setSignalHeader and setSignalHeaders.
ChannelInfos ==
    {[label |-> "EEG", dimension |-> "uV", sample_rate |-> 2,
      physical_max |-> 100, physical_min |-> -100,
      digital_max |-> DigitalMax16, digital_min |-> DigitalMin16,
      prefilter |-> "", transducer |-> ""]}

setSignalHeader(edfsignal, channel_info) ==
    /\ ws.pc = "idle"
    /\ IF ChannelCheckFails(edfsignal)
       THEN Raise("setSignalHeader", edfsignal, "ChannelDoesNotExist", edfsignal)
       ELSE IF ~PyIndexOk(edfsignal, Len(channels))
       THEN Raise("setSignalHeader", edfsignal, "IndexError", 0)
       ELSE update_header("setSignalHeader", edfsignal, meta,
               [channels EXCEPT ![PyIndex(edfsignal, Len(channels))] = channel_info])

setSamplefrequency(edfsignal, samplefrequency) ==
    /\ ws.pc = "idle"
    /\ IF ChannelCheckFails(edfsignal)
       THEN Raise("setSamplefrequency", edfsignal, "ChannelDoesNotExist", edfsignal)
       ELSE IF ~PyIndexOk(edfsignal, Len(channels))
       THEN Raise("setSamplefrequency", edfsignal, "IndexError", 0)
       ELSE update_header("setSamplefrequency", edfsignal, meta,
               [channels EXCEPT ![PyIndex(edfsignal, Len(channels))].sample_rate = samplefrequency])

setPhysicalMaximum(edfsignal, physical_maximum) ==
    /\ ws.pc = "idle"
    /\ IF ChannelCheckFails(edfsignal)
       THEN Raise("setPhysicalMaximum", edfsignal, "ChannelDoesNotExist", edfsignal)
       ELSE IF ~PyIndexOk(edfsignal, Len(channels))
       THEN Raise("setPhysicalMaximum", edfsignal, "IndexError", 0)
       ELSE update_header("setPhysicalMaximum", edfsignal, meta,
               [channels EXCEPT ![PyIndex(edfsignal, Len(channels))].physical_max = physical_maximum])

setPhysicalMinimum(edfsignal, physical_minimum) ==
    /\ ws.pc = "idle"
    /\ IF ChannelCheckFails(edfsignal)
       THEN Raise("setPhysicalMinimum", edfsignal, "ChannelDoesNotExist", edfsignal)
       ELSE IF ~PyIndexOk(edfsignal, Len(channels))
       THEN Raise("setPhysicalMinimum", edfsignal, "IndexError", 0)
       ELSE update_header("setPhysicalMinimum", edfsignal, meta,
               [channels EXCEPT ![PyIndex(edfsignal, Len(channels))].physical_min = physical_minimum])

setDigitalMaximum(edfsignal, digital_maximum) ==
    /\ ws.pc = "idle"
    /\ IF ChannelCheckFails(edfsignal)
       THEN Raise("setDigitalMaximum", edfsignal, "ChannelDoesNotExist", edfsignal)
       ELSE IF ~PyIndexOk(edfsignal, Len(channels))
       THEN Raise("setDigitalMaximum", edfsignal, "IndexError", 0)
       ELSE update_header("setDigitalMaximum", edfsignal, meta,
               [channels EXCEPT ![PyIndex(edfsignal, Len(channels))].digital_max = digital_maximum])

setDigitalMinimum(edfsignal, digital_minimum) ==
    /\ ws.pc = "idle"
    /\ IF ChannelCheckFails(edfsignal)
       THEN Raise("setDigitalMinimum", edfsignal, "ChannelDoesNotExist", edfsignal)
       ELSE IF ~PyIndexOk(edfsignal, Len(channels))
       THEN Raise("setDigitalMinimum", edfsignal, "IndexError", 0)
       ELSE update_header("setDigitalMinimum", edfsignal, meta,
               [channels EXCEPT ![PyIndex(edfsignal, Len(channels))].digital_min = digital_minimum])

setLabel(edfsignal, label) ==
    /\ ws.pc = "idle"
    /\ IF ChannelCheckFails(edfsignal)
       THEN Raise("setLabel", edfsignal, "ChannelDoesNotExist", edfsignal)
       ELSE IF ~PyIndexOk(edfsignal, Len(channels))
       THEN Raise("setLabel", edfsignal, "IndexError", 0)
       ELSE update_header("setLabel", edfsignal, meta,
               [channels EXCEPT ![PyIndex(edfsignal, Len(channels))].label = label])

setPhysicalDimension(edfsignal, physical_dimension) ==
    /\ ws.pc = "idle"
    /\ IF ChannelCheckFails(edfsignal)
       THEN Raise("setPhysicalDimension", edfsignal, "ChannelDoesNotExist", edfsignal)
       ELSE IF ~PyIndexOk(edfsignal, Len(channels))
       THEN Raise("setPhysicalDimension", edfsignal, "IndexError", 0)
       ELSE update_header("setPhysicalDimension", edfsignal, meta,
               [channels EXCEPT ![PyIndex(edfsignal, Len(channels))].dimension = physical_dimension])

setTransducer(edfsignal, transducer) ==
    /\ ws.pc = "idle"
    /\ IF ChannelCheckFails(edfsignal)
       THEN Raise("setTransducer", edfsignal, "ChannelDoesNotExist", edfsignal)
       ELSE IF ~PyIndexOk(edfsignal, Len(channels))
       THEN Raise("setTransducer", edfsignal, "IndexError", 0)
       ELSE update_header("setTransducer", edfsignal, meta,
               [channels EXCEPT ![PyIndex(edfsignal, Len(channels))].transducer = transducer])

setPrefilter(edfsignal, prefilter) ==
    /\ ws.pc = "idle"
    /\ IF ChannelCheckFails(edfsignal)
       THEN Raise("setPrefilter", edfsignal, "ChannelDoesNotExist", edfsignal)
       ELSE IF ~PyIndexOk(edfsignal, Len(channels))
       THEN Raise("setPrefilter", edfsignal, "IndexError", 0)
       ELSE update_header("setPrefilter", edfsignal, meta,
               [channels EXCEPT ![PyIndex(edfsignal, Len(channels))].prefilter = prefilter])

\* The table replaced as a whole ("self.channels = signalHeaders"): it takes
\* the length of the list handed in.
setSignalHeaders_replace(signalHeaders) ==
    /\ ws.pc = "idle"
    /\ IF Len(signalHeaders) < n_channels
       THEN /\ channels' = signalHeaders
            /\ codec_writes' = <<>>
            /\ codec_annot' = <<>>
            /\ last' = Outcome("setSignalHeaders", Len(signalHeaders), "IndexError", 0, 0)
            /\ UNCHANGED <<file_type, n_channels, meta, codec_hdr, codec_chan,
                           codec_count, close_calls, ws>>
       ELSE update_header("setSignalHeaders", Len(signalHeaders), meta, signalHeaders)

\* setSignalHeaders: the loop assigns signalHeaders[0], signalHeaders[1], ...
\* and raises IndexError, before update_header, when the list is too short.
setSignalHeaders(signalHeaders) ==
    /\ ws.pc = "idle"
    /\ LET k == Min(Len(signalHeaders), n_channels)
           chs == [i \in 1..Len(channels) |->
                      IF i <= k THEN signalHeaders[i] ELSE channels[i]]
       IN  IF Len(signalHeaders) < n_channels
           THEN /\ channels' = chs
                /\ codec_writes' = <<>>
                /\ codec_annot' = <<>>
                /\ last' = Outcome("setSignalHeaders", Len(signalHeaders), "IndexError", 0, 0)
                /\ UNCHANGED <<file_type, n_channels, meta, codec_hdr, codec_chan,
                               codec_count, close_calls, ws>>
           ELSE update_header("setSignalHeaders", Len(signalHeaders), meta, chs)

\* ------------------------------------------------------------------ writes

\* writePhysicalSamples(data): one codec write; the codec's status is returned.
writePhysicalSamples(data) ==
    /\ ws.pc = "idle"
    /\ codec_count < MaxWrites
    /\ codec_writes' = <<WriteCall(-1, data)>>
    /\ codec_annot' = <<>>
    /\ codec_count' = codec_count + 1
    /\ last' = Outcome("writePhysicalSamples", Len(data), "ok", CodecWriteStatus, 1)
    /\ UNCHANGED <<file_type, n_channels, meta, channels, codec_hdr, codec_chan,
                   close_calls, ws>>

\* The first check written with "<": a list with a sequence too many passes.
WrongInput_less(data_list) == Len(data_list) < Len(channels)

\* writeSamples, its first check: "len(data_list) != len(self.channels)".
WrongInput(data_list) == Len(data_list) # Len(channels)

\* The test written with "<=": a channel with exactly one full round left
\* counts as short.
NotAtEnd_le(data_list, ind) ==
    \A i \in 1..Len(data_list) :
        ~(Len(data_list[i]) <= ind[i] + channels[i].sample_rate)

\* writeSamples, the test both loops over the channels make: no channel is
\* short of a full round ("np.size(data_list[i]) < ind[i] + sample_rate").
NotAtEnd(data_list, ind) ==
    \A i \in 1..Len(data_list) :
        ~(Len(data_list[i]) < ind[i] + channels[i].sample_rate)

\* writeSamples, the slice one round writes for channel i (1-based).
RoundSlice(data_list, ind, i) ==
    PySlice(data_list[i], ind[i], ind[i] + channels[i].sample_rate)

\* writeSamples, the cursor after channel i's write of a round.
Advance(ind, i) == [ind EXCEPT ![i] = @ + channels[i].sample_rate]

\* writeSamples, the final loop: lastSampleInd of channel i.
LastSampleInd(data_list, ind, i) == Len(data_list[i]) - ind[i]

\* writeSamples, the final loop: data_list[i].flatten()[-lastSampleInd:].
LastTail(data_list, ind, i) ==
    PySlice(data_list[i], Len(data_list[i]) - LastSampleInd(data_list, ind, i),
            Len(data_list[i]))

\* writeSamples, the final loop: whether channel i's record is written.
FinalWritten(data_list, ind, i) == LastSampleInd(data_list, ind, i) > 0

\* writeSamples up to the first test of notAtEnd (lines 526-536).
writeSamples(data_list) ==
    /\ ws.pc = "idle"
    /\ IF WrongInput(data_list)
       THEN Raise("writeSamples", Len(data_list), "WrongInputSize", Len(data_list))
       ELSE IF Len(data_list) > Len(channels)
       THEN Raise("writeSamples", Len(data_list), "IndexError", 0)
       ELSE LET ind == [i \in 1..Len(data_list) |-> 0]
            IN  /\ ws' = [pc |-> IF NotAtEnd(data_list, ind) THEN "round" ELSE "final",
                          data_list |-> data_list, ind |-> ind, i |-> 1]
                /\ codec_writes' = <<>>
                /\ codec_annot' = <<>>
                /\ last' = Outcome("writeSamples", Len(data_list), "running", 0, 0)
                /\ UNCHANGED <<file_type, n_channels, meta, channels, codec_hdr,
                               codec_chan, codec_count, close_calls>>

\* writeSamples, one pass of the while loop's first for (lines 539-541); the
\* last channel's pass is followed by the second for (lines 543-545).
writeSamples_round ==
    /\ ws.pc = "round"
    /\ ws.i <= Len(ws.data_list)
    /\ codec_count < MaxWrites
    /\ LET i == ws.i
           ind == Advance(ws.ind, i)
       IN  /\ codec_writes' = Append(codec_writes,
                                     WriteCall(i - 1, RoundSlice(ws.data_list, ws.ind, i)))
           /\ codec_count' = codec_count + 1
           /\ ws' = IF i < Len(ws.data_list)
                    THEN [ws EXCEPT !.ind = ind, !.i = i + 1]
                    ELSE [ws EXCEPT !.ind = ind, !.i = 1,
                                    !.pc = IF NotAtEnd(ws.data_list, ind)
                                           THEN "round" ELSE "final"]
           /\ last' = [last EXCEPT !.ncalls = @ + 1]
    /\ UNCHANGED <<file_type, n_channels, meta, channels, codec_hdr, codec_chan, close_calls,
                   codec_annot>>

\* writeSamples, one pass of the final for (lines 547-552); the call returns
\* after the last channel's pass, or raises numpy's ValueError.
writeSamples_final ==
    /\ ws.pc = "final"
    /\ FinalWritten(ws.data_list, ws.ind, ws.i) => codec_count < MaxWrites
    /\ LET i == ws.i
           lastSamples == Zeros(channels[i].sample_rate)
           lastSampleInd == LastSampleInd(ws.data_list, ws.ind, i)
           tail == LastTail(ws.data_list, ws.ind, i)
           next == IF i < Len(ws.data_list)
                   THEN [ws EXCEPT !.i = i + 1] ELSE IdleFrame
           done == IF i < Len(ws.data_list) THEN last ELSE [last EXCEPT !.result = "ok"]
       IN  IF ~FinalWritten(ws.data_list, ws.ind, i)
           THEN /\ ws' = next
                /\ last' = done
                /\ UNCHANGED <<codec_writes, codec_count>>
           ELSE IF ~AssignOk(lastSamples, lastSampleInd, tail)
           THEN /\ ws' = IdleFrame
                /\ last' = [last EXCEPT !.result = "ValueError"]
                /\ UNCHANGED <<codec_writes, codec_count>>
           ELSE /\ codec_writes' = Append(codec_writes,
                       WriteCall(i - 1, AssignPrefix(lastSamples, lastSampleInd, tail)))
                /\ codec_count' = codec_count + 1
                /\ ws' = next
                /\ last' = [done EXCEPT !.ncalls = @ + 1]
    /\ UNCHANGED <<file_type, n_channels, meta, channels, codec_hdr, codec_chan, close_calls,
                   codec_annot>>

\* ------------------------------------------------------------ annotations

\* The branch written with ">": a duration of exactly 0 gets the sentinel.
AnnotDuration_gt(duration_in_seconds) ==
    IF duration_in_seconds > 0 THEN NpRound(duration_in_seconds) ELSE {-1}

\* writeAnnotation, the duration handed to the codec: the rounded ticks
\* "if duration_in_seconds >= 0", the sentinel -1 otherwise.
AnnotDuration(duration_in_seconds) ==
    IF duration_in_seconds >= 0 THEN NpRound(duration_in_seconds) ELSE {-1}

\* writeAnnotation: one write_annotation call in the text mode chosen by
\* str_format; the codec's status is returned. The text is encoded last, so
\* a description outside Latin-1 raises before the call is made.
writeAnnotation(onset_in_seconds, duration_in_seconds, description, str_format) ==
    /\ ws.pc = "idle"
    /\ IF str_format # "utf-8" /\ ~Latin1Ok(description)
       THEN Raise("writeAnnotation", 0, "UnicodeEncodeError", 0)
       ELSE \E onset \in NpRound(onset_in_seconds),
               duration \in AnnotDuration(duration_in_seconds) :
            /\ codec_annot' =
                  << AnnotCall(IF str_format = "utf-8" THEN "write_annotation_utf8"
                                                      ELSE "write_annotation_latin1",
                               onset, duration,
                               IF str_format = "utf-8" THEN EncodeUTF8(description)
                                                      ELSE EncodeLatin1(description),
                               <<onset_in_seconds, duration_in_seconds, str_format>>) >>
            /\ codec_writes' = <<>>
            /\ last' = Outcome("writeAnnotation", 0, "ok", CodecAnnotStatus, 1)
            /\ UNCHANGED <<file_type, n_channels, meta, channels, codec_hdr, codec_chan,
                           codec_count, close_calls, ws>>

\* ------------------------------------------------------------------- close

\* close(): close_file(self.handle), whatever the handle's state.
close ==
    /\ ws.pc = "idle"
    /\ close_calls < MaxCloses
    /\ close_calls' = close_calls + 1
    /\ codec_writes' = <<>>
    /\ codec_annot' = <<>>
    /\ last' = Outcome("close", 0, "ok", 0, 1)
    /\ UNCHANGED <<file_type, n_channels, meta, channels, codec_hdr, codec_chan,
                   codec_count, ws>>

\* __exit__(exc_type, exc_val, ex_tb): self.close().
exit ==
    /\ ws.pc = "idle"
    /\ close_calls < MaxCloses
    /\ close_calls' = close_calls + 1
    /\ codec_writes' = <<>>
    /\ codec_annot' = <<>>
    /\ last' = Outcome("__exit__", 0, "ok", 0, 1)
    /\ UNCHANGED <<file_type, n_channels, meta, channels, codec_hdr, codec_chan,
                   codec_count, ws>>

\* ---------------------------------------------------------- specifications

\* The channel indices the setters are called with: every valid one, the
\* first past the end, and a negative one.
Indices == -1..n_channels

\* The buffers handed to writePhysicalSamples.
Buffers == { Samples(1, len) : len \in SampleLens }

\* The headers handed to setHeader.
FileHeaders ==
    { [technician |-> "a", recording_additional |-> "a", patientname |-> "a",
       patient_additional |-> "a", patientcode |-> "a", equipment |-> "a",
       admincode |-> "a", gender |-> g, startdate |-> StartTime1, birthdate |-> b] :
      g \in {PyInt(1), PyStr("Female")}, b \in {PyDateStr("12 Mar 1975"), PyDateStr("12/03/1975")} }

MetadataSetter ==
    \/ \E h \in FileHeaders : setHeader(h)
    \/ \E t \in Texts : setTechnician(t)
    \/ \E t \in Texts : setRecordingAdditional(t)
    \/ \E t \in Texts : setPatientName(t)
    \/ \E t \in Texts : setPatientCode(t)
    \/ \E t \in Texts : setPatientAdditional(t)
    \/ \E t \in Texts : setEquipment(t)
    \/ \E t \in Texts : setAdmincode(t)
    \/ \E g \in Genders : setGender(g)
    \/ \E d \in Durations : setDatarecordDuration(d)
    \/ \E t \in StartTimes : setStartdatetime(t)
    \/ \E b \in Birthdates : setBirthdate(b)

NumericSetter ==
    \/ \E e \in Indices, v \in Rates : setSamplefrequency(e, v)
    \/ \E e \in Indices, v \in {DefaultPhysicalMin, DefaultPhysicalMax} : setPhysicalMaximum(e, v)
    \/ \E e \in Indices, v \in {DefaultPhysicalMin, DefaultPhysicalMax} : setPhysicalMinimum(e, v)
    \/ \E e \in Indices, v \in {DigitalMin16, DigitalMax16} : setDigitalMaximum(e, v)
    \/ \E e \in Indices, v \in {DigitalMin16, DigitalMax16} : setDigitalMinimum(e, v)

TextSetter ==
    \/ \E e \in Indices, t \in {"test_label", "EEG"} : setLabel(e, t)
    \/ \E e \in Indices, t \in {"mV", "uV"} : setPhysicalDimension(e, t)
    \/ \E e \in Indices, t \in {"trans1", ""} : setTransducer(e, t)
    \/ \E e \in Indices, t \in {"pre1", ""} : setPrefilter(e, t)

BulkSetter ==
    \/ \E e \in Indices, c \in ChannelInfos : setSignalHeader(e, c)
    \/ \E k \in 0..(MaxChannels + 1), c \in ChannelInfos : setSignalHeaders([i \in 1..k |-> c])

BulkWrite ==
    \/ \E d \in DataLists : writeSamples(d)
    \/ writeSamples_round
    \/ writeSamples_final

Annotate ==
    \E o \in Onsets, d \in AnnotDurations, t \in Descriptions, f \in StrFormats :
        writeAnnotation(o, d, t, f)

Next ==
    \/ MetadataSetter
    \/ NumericSetter
    \/ TextSetter
    \/ BulkSetter
    \/ \E b \in Buffers : writePhysicalSamples(b)
    \/ BulkWrite
    \/ Annotate
    \/ close
    \/ exit

Spec == Init /\ [][Next]_vars

\* A session constructed with the default file type.
InitDefault == Init /\ file_type = FILETYPE_EDFPLUS /\ meta.recording_start_time = StartTime0

\* The bulk writer under every sample rate the setter can install.
NextWrite ==
    \/ \E e \in 0..(n_channels - 1), v \in Rates : setSamplefrequency(e, v)
    \/ BulkWrite
SpecWrite == InitDefault /\ [][NextWrite]_vars

\* The same, a running writeSamples call going on to its next statement: the
\* program is single-threaded and nothing suspends the call.
SpecWriteFair ==
    SpecWrite /\ WF_vars(writeSamples_round) /\ WF_vars(writeSamples_final)

\* The metadata setters with a conversion or a branch of their own in
\* update_header, the bulk setHeader, and the technician's two setters.
NextHeader ==
    \/ \E h \in FileHeaders : setHeader(h)
    \/ \E t \in Texts : setTechnician(t)
    \/ \E t \in Texts : setPatientAdditional(t)
    \/ \E g \in Genders : setGender(g)
    \/ \E d \in Durations : setDatarecordDuration(d)
    \/ \E t \in StartTimes : setStartdatetime(t)
    \/ \E b \in Birthdates : setBirthdate(b)
SpecHeader == InitDefault /\ [][NextHeader]_vars

\* The per-channel setters of the numeric fields and setSignalHeader, called
\* on channel 0, one past the end and -1, and the single-channel write.
IndicesChannel == {-1, 0, n_channels}
NextChannel ==
    \/ \E e \in IndicesChannel : setSamplefrequency(e, 1)
    \/ \E e \in IndicesChannel, v \in {DefaultPhysicalMin, DefaultPhysicalMax} : setPhysicalMaximum(e, v)
    \/ \E e \in IndicesChannel, v \in {DefaultPhysicalMin, DefaultPhysicalMax} : setPhysicalMinimum(e, v)
    \/ \E e \in IndicesChannel, v \in {DigitalMin16, DigitalMax16} : setDigitalMaximum(e, v)
    \/ \E e \in IndicesChannel, v \in {DigitalMin16, DigitalMax16} : setDigitalMinimum(e, v)
    \/ \E e \in IndicesChannel, c \in ChannelInfos : setSignalHeader(e, c)
    \/ writePhysicalSamples(Samples(1, 1))
SpecChannel == InitDefault /\ [][NextChannel]_vars

\* The session's life: writes, an annotation, two setters, close and __exit__.
NextLife ==
    \/ \E t \in Texts : setTechnician(t)
    \/ \E e \in 0..(n_channels - 1) : setSamplefrequency(e, 1)
    \/ \E b \in Buffers : writePhysicalSamples(b)
    \/ BulkWrite
    \/ \E f \in StrFormats : writeAnnotation(123456, -100000, "a", f)
    \/ close
    \/ exit
SpecLife == InitDefault /\ [][NextLife]_vars

\* A session of any file type under setters that leave the digital limits
\* alone.
NextConstruct ==
    \/ \E t \in Texts : setTechnician(t)
    \/ \E d \in Durations : setDatarecordDuration(d)
    \/ \E e \in 0..(n_channels - 1), v \in 1..MaxRate : setSamplefrequency(e, v)
    \/ \E t \in {"test_label", "EEG"} : setLabel(0, t)
SpecConstruct == Init /\ [][NextConstruct]_vars

\* The annotation writer on an open and on a closed session.
NextAnnot ==
    \/ Annotate
    \/ close
SpecAnnot == InitDefault /\ [][NextAnnot]_vars

\* The descriptor table under its two bulk setters and the bulk writer.
NextTable ==
    \/ \E e \in IndicesChannel, c \in ChannelInfos : setSignalHeader(e, c)
    \/ \E k \in 0..(MaxChannels + 1), c \in ChannelInfos : setSignalHeaders([i \in 1..k |-> c])
    \/ BulkWrite
SpecTable == InitDefault /\ [][NextTable]_vars

\* ------------------------------------------------------------------ claims

\* Every channel's sample rate is positive (the data model's sample_rate).
RatesPositive == \A i \in 1..n_channels : channels[i].sample_rate > 0

MinOf(S) == CHOOSE x \in S : \A y \in S : x <= y

\* The number of full rounds the samples allow: the least, over the channels,
\* of floor(len_i / sample_rate[i]).
FullRounds(data_list) ==
    MinOf({ Len(data_list[i]) \div channels[i].sample_rate : i \in 1..Len(data_list) })

\* The number of codec writes in log that carry channel ch (0-based).
WritesOfChannel(log, ch) == Cardinality({ k \in 1..Len(log) : log[k].ch = ch })

\* rem followed by zeros, to the length n.
PadRight(rem, n) == [j \in 1..n |-> IF j <= Len(rem) THEN rem[j] ELSE 0]

\* C1: when a writeSamples call that was given n_channels sequences ends,
\* every channel has received the number of full rounds plus one codec writes.
C1_EqualRecordCount ==
    [][ (ws.pc = "final" /\ ws'.pc = "idle" /\ RatesPositive)
        => \A c \in 0..(n_channels - 1) :
              WritesOfChannel(codec_writes', c) = FullRounds(ws.data_list) + 1 ]_vars

\* C2: the k-th codec write of a session written by writeSamples alone
\* (counting from 0) carries channel k mod n_channels.
C2_RoundRobinOrder ==
    last.op = "writeSamples"
    => \A k \in 1..Len(codec_writes) :
          codec_writes[k].ch = (codec_count - Len(codec_writes) + k - 1) % n_channels

\* C3: a writeSamples call whose number of sequences differs from n_channels
\* raises WrongInputSize carrying that number, makes no codec write and
\* changes nothing of the session or the codec.
C3_WrongInputSize ==
    [][ (ws.pc = "idle" /\ last'.op = "writeSamples" /\ last'.arg # n_channels)
        => /\ last'.result = "WrongInputSize"
           /\ last'.value = last'.arg
           /\ last'.ncalls = 0
           /\ codec_writes' = <<>>
           /\ UNCHANGED <<file_type, n_channels, meta, channels, codec_hdr,
                          codec_chan, codec_count, close_calls, ws>> ]_vars

\* C3's case: a call with one sequence on a two-channel session that has
\* already written records was rejected.
C3_Witness ==
    /\ last.op = "writeSamples"
    /\ last.result = "WrongInputSize"
    /\ n_channels = 2
    /\ last.arg = 1
    /\ codec_count > 0

\* C4: while a round is being written every channel not yet written in it has
\* a full round of samples left; when the round-robin loop has ended, every
\* cursor stands at R * sample_rate[i] and the codec has received exactly the
\* R rounds, in channel order, each write the channel's next sample_rate[i]
\* samples, R being the least floor(len_i / sample_rate[i]).
C4_FullRounds ==
    /\ (ws.pc = "round" /\ RatesPositive)
       => \A i \in 1..n_channels :
             IF i >= ws.i
             THEN ws.ind[i] + channels[i].sample_rate <= Len(ws.data_list[i])
             ELSE ws.ind[i] <= Len(ws.data_list[i])
    /\ (ws.pc = "final" /\ RatesPositive)
       => LET R == FullRounds(ws.data_list)
          IN  /\ \A i \in 1..n_channels : ws.ind[i] = R * channels[i].sample_rate
              /\ Len(codec_writes) >= R * n_channels
              /\ (ws.i = 1 => Len(codec_writes) = R * n_channels)
              /\ \A r \in 1..R, i \in 1..n_channels :
                    LET w == codec_writes[(r - 1) * n_channels + i]
                        sr == channels[i].sample_rate
                    IN  /\ w.ch = i - 1
                        /\ w.buf = [j \in 1..sr |-> ws.data_list[i][(r - 1) * sr + j]]

\* C4's case: the loop has ended after at least one round on two channels of
\* different rates and different lengths.
C4_Witness ==
    /\ ws.pc = "final"
    /\ ws.i = 1
    /\ n_channels = 2
    /\ RatesPositive
    /\ channels[1].sample_rate # channels[2].sample_rate
    /\ Len(ws.data_list[1]) # Len(ws.data_list[2])
    /\ FullRounds(ws.data_list) >= 1

\* C5: each pass of the final loop hands the codec one record of length
\* sample_rate[i], the samples past the cursor followed by zeros, and never
\* raises.
C5_FinalRecord ==
    [][ ws.pc = "final"
        => LET i == ws.i
               sr == channels[i].sample_rate
               rem == PySlice(ws.data_list[i], ws.ind[i], Len(ws.data_list[i]))
           IN  /\ last'.result # "ValueError"
               /\ Len(codec_writes') = Len(codec_writes) + 1
               /\ codec_writes'[Len(codec_writes')].ch = i - 1
               /\ codec_writes'[Len(codec_writes')].buf = PadRight(rem, sr) ]_vars

\* The per-channel setters.
ChannelSetters ==
    {"setSignalHeader", "setSamplefrequency", "setPhysicalMaximum", "setPhysicalMinimum",
     "setDigitalMaximum", "setDigitalMinimum", "setLabel", "setPhysicalDimension",
     "setTransducer", "setPrefilter"}

\* The header and descriptor setters.
Setters ==
    ChannelSetters \cup
    {"setHeader", "setSignalHeaders", "setTechnician", "setRecordingAdditional",
     "setPatientName", "setPatientCode", "setPatientAdditional", "setEquipment",
     "setAdmincode", "setGender", "setDatarecordDuration", "setStartdatetime",
     "setBirthdate"}

\* C6: a per-channel setter called with an index outside 0 .. n_channels - 1
\* raises ChannelDoesNotExist carrying the index, makes no codec call and
\* leaves the descriptors, the metadata and the codec's header unchanged;
\* called with an index inside the range it does not raise it.
C6_IndexRange ==
    [][ (ws.pc = "idle" /\ last'.op \in ChannelSetters)
        => IF 0 <= last'.arg /\ last'.arg < n_channels
           THEN last'.result # "ChannelDoesNotExist"
           ELSE /\ last'.result = "ChannelDoesNotExist"
                /\ last'.value = last'.arg
                /\ last'.ncalls = 0
                /\ UNCHANGED <<meta, channels, codec_hdr, codec_chan>> ]_vars

\* The integer codes that are the value of a stored gender: the code itself,
\* or the code of its synonym; no code is the value of any other string.
GenderCodes(g) ==
    IF g.kind = "int" THEN {g.int}
    ELSE IF g.str = "Male" THEN {0}
    ELSE IF g.str = "Female" THEN {1}
    ELSE {}

\* The codec's metadata, but for the gender, is the session's.
CodecMetaInSync ==
    /\ codec_hdr.technician = EncodeUTF8(meta.technician)
    /\ codec_hdr.recording_additional = EncodeUTF8(meta.recording_additional)
    /\ codec_hdr.patient_name = EncodeUTF8(meta.patient_name)
    /\ codec_hdr.patient_code = EncodeUTF8(meta.patient_code)
    /\ codec_hdr.patient_additional = EncodeUTF8(meta.patient_additional)
    /\ codec_hdr.equipment = EncodeUTF8(meta.equipment)
    /\ codec_hdr.admincode = EncodeUTF8(meta.admincode)
    /\ codec_hdr.duration = meta.duration
    /\ codec_hdr.startdatetime = meta.recording_start_time
    /\ codec_hdr.birthdate = BirthdateYMD(meta.birthdate)

\* The codec's channel descriptors are the session's.
CodecChannelsInSync ==
    \A i \in 1..n_channels : codec_chan[i] = EncodeChannel(channels[i])

\* C7: after a setter call that returned, the codec holds the session's
\* value of every metadata field and of every field of every descriptor.
C7_CodecInSync ==
    (last.op \in Setters /\ last.result = "ok")
    => /\ CodecMetaInSync
       /\ codec_hdr.gender \in GenderCodes(meta.gender)
       /\ CodecChannelsInSync

\* C8: a setBirthdate or setHeader call that fails on its birthdate has made
\* no codec call and has left the session and the codec as they were.
C8_RejectedBeforeCodec ==
    [][ (ws.pc = "idle" /\ last'.op \in {"setBirthdate", "setHeader"}
           /\ last'.result = "ValueError")
        => /\ last'.ncalls = 0
           /\ UNCHANGED <<meta, channels, codec_hdr, codec_chan>> ]_vars

\* C9: when a sample write has just been made, every descriptor has
\* physical_min < physical_max and digital_min < digital_max.
C9_LimitsOrderedAtWrite ==
    last.op \in {"writePhysicalSamples", "writeSamples"}
    => \A i \in 1..n_channels :
          /\ channels[i].physical_min < channels[i].physical_max
          /\ channels[i].digital_min < channels[i].digital_max

\* C10: close_file is called on the session's handle at most once.
C10_ClosedOnce == close_calls <= 1

\* The sample and annotation writes.
WriteOps == {"writePhysicalSamples", "writeSamples", "writeAnnotation"}

\* A call that has ended failed: it raised, or it returned the failure status
\* of the codec.
CallFailed(o) ==
    \/ o.result \notin {"ok", "running"}
    \/ o.op \in {"writePhysicalSamples", "writeAnnotation"} /\ o.value < 0

\* C11: once close has been called, every write call that ends has failed and
\* has issued no write_physical_samples and no write_annotation call.
C11_ClosedIsTerminal ==
    [][ (close_calls > 0 /\ last'.op \in WriteOps /\ last'.result # "running")
        => /\ CallFailed(last')
           /\ codec_writes' = <<>>
           /\ codec_annot' = <<>>
           /\ codec_count' = codec_count ]_vars

\* C12: setGender stores and pushes an integer code; it pushes 0 for "Male"
\* and 1 for "Female"; with any other string it raises nothing and leaves the
\* session's gender and the codec's gender as they were (the session's
\* birthdate being one update_header accepts).
C12_GenderSetter ==
    [][ (ws.pc = "idle" /\ last'.op = "setGender" /\ ~BirthdateRaises(meta.birthdate))
        => LET g == last'.arg
           IN  /\ last'.result = "ok"
               /\ IF g.kind = "int"
                  THEN meta'.gender = g /\ codec_hdr'.gender = g.int
                  ELSE IF g.str = "Male" THEN codec_hdr'.gender = 0
                  ELSE IF g.str = "Female" THEN codec_hdr'.gender = 1
                  ELSE meta'.gender = meta.gender /\ codec_hdr'.gender = codec_hdr.gender ]_vars

\* C13: writePhysicalSamples returns the status of its one codec write; a
\* writeSamples call one of whose codec writes reported failure does not end
\* as a success; no step of a write makes more than one codec write.
C13_CodecFailureReported ==
    [][ /\ (ws.pc = "idle" /\ last'.op = "writePhysicalSamples")
           => /\ Len(codec_writes') = 1
              /\ last'.value = codec_writes'[1].status
        /\ (ws.pc # "idle" /\ ws'.pc = "idle"
              /\ \E k \in 1..Len(codec_writes') : codec_writes'[k].status < 0)
           => last'.result # "ok"
        /\ ws.pc # "idle" => Len(codec_writes') <= Len(codec_writes) + 1 ]_vars

\* C14: once a sample write has been made on the session, no setter call
\* changes the header values the codec holds.
C14_SettersBeforeFirstWrite ==
    [][ (codec_count > 0 /\ ws.pc = "idle" /\ last'.op \in Setters)
        => UNCHANGED <<codec_hdr, codec_chan>> ]_vars

\* C15: when the latest configuration or write operation has ended with an
\* error, close_file has been called on the session's handle.
C15_ReleasedOnError ==
    (last.op \in Setters \cup WriteOps /\ CallFailed(last)) => close_calls > 0

\* The signed range of the file type's samples: 16 bits for EDF and EDF+,
\* 24 bits for BDF and BDF+.
SampleBits(ft) == IF ft \in {FILETYPE_EDF, FILETYPE_EDFPLUS} THEN 16 ELSE 24

\* C16: as long as no setter has changed the digital limits (SpecConstruct
\* has no such setter), every channel's digital_min and digital_max lie in
\* the signed range of the session's file type, digital_max above digital_min.
C16_DefaultDigitalRange ==
    \A i \in 1..n_channels :
        /\ -(2 ^ (SampleBits(file_type) - 1)) <= channels[i].digital_min
        /\ channels[i].digital_max <= 2 ^ (SampleBits(file_type) - 1) - 1
        /\ channels[i].digital_max > channels[i].digital_min

\* x is an integer nearest to seconds * 10000 (seconds in hundred-thousandths
\* of a second: the product is seconds / 10).
NearestTick(x, seconds) ==
    /\ 2 * (10 * x - seconds) <= 10
    /\ 2 * (seconds - 10 * x) <= 10

\* C17: a writeAnnotation call that returns has made one write_annotation
\* call, in the text mode asked for, whose onset is the onset in seconds
\* times 10000 rounded to the nearest integer and whose duration is the
\* duration rounded the same way when it is >= 0 and -1 when it is negative.
C17_AnnotationTicks ==
    (last.op = "writeAnnotation" /\ last.result = "ok")
    => /\ Len(codec_annot) = 1
       /\ LET c == codec_annot[1]
              onset_in_seconds == c.args[1]
              duration_in_seconds == c.args[2]
              str_format == c.args[3]
          IN  /\ c.fn = IF str_format = "utf-8" THEN "write_annotation_utf8"
                                                ELSE "write_annotation_latin1"
              /\ NearestTick(c.onset, onset_in_seconds)
              /\ IF duration_in_seconds >= 0
                 THEN NearestTick(c.duration, duration_in_seconds)
                 ELSE c.duration = -1
              /\ (onset_in_seconds = 123456 => c.onset = 12346)
              /\ (duration_in_seconds = 50000 => c.duration = 5000)

\* C17's case: an annotation of duration exactly 0 was written in the Latin-1
\* mode with an onset of 1.23456 s.
C17_Witness ==
    /\ last.op = "writeAnnotation"
    /\ last.result = "ok"
    /\ Len(codec_annot) = 1
    /\ codec_annot[1].args = <<123456, 0, "latin1">>
    /\ codec_annot[1].duration = 0

\* The session field each single-field metadata setter is named for.
FieldOf ==
    [op \in {"setTechnician", "setRecordingAdditional", "setPatientName", "setPatientCode",
             "setPatientAdditional", "setEquipment", "setAdmincode",
             "setDatarecordDuration", "setStartdatetime", "setBirthdate"} |->
        CASE op = "setTechnician" -> "technician"
          [] op = "setRecordingAdditional" -> "recording_additional"
          [] op = "setPatientName" -> "patient_name"
          [] op = "setPatientCode" -> "patient_code"
          [] op = "setPatientAdditional" -> "patient_additional"
          [] op = "setEquipment" -> "equipment"
          [] op = "setAdmincode" -> "admincode"
          [] op = "setDatarecordDuration" -> "duration"
          [] op = "setStartdatetime" -> "recording_start_time"
          [] op = "setBirthdate" -> "birthdate"]

\* C18: a single-field metadata setter sets the session field it is named
\* for to its argument and leaves every other metadata field and every
\* channel descriptor as it was.
C18_SingleFieldSetters ==
    [][ (ws.pc = "idle" /\ last'.op \in DOMAIN FieldOf)
        => /\ meta'[FieldOf[last'.op]] = last'.arg
           /\ \A f \in DOMAIN meta \ {FieldOf[last'.op]} : meta'[f] = meta[f]
           /\ channels' = channels ]_vars

\* C19: the descriptor table holds n_channels descriptors from construction
\* on, no step changes n_channels, and the count writeSamples rejects is
\* every count but n_channels.
C19_ChannelCountFixed ==
    /\ Len(channels) = n_channels
    /\ [][ /\ n_channels' = n_channels
           /\ Len(channels') = n_channels'
           /\ \A d \in DataLists : WrongInput(d)' <=> Len(d) # n_channels' ]_vars

\* C19's case: after a sample write, setSignalHeaders was handed more
\* descriptors than the session has channels and returned.
C19_Witness ==
    /\ last.op = "setSignalHeaders"
    /\ last.arg > n_channels
    /\ last.result = "ok"
    /\ codec_count > 0

====
